---- MODULE Spec2Model ----
\* Push-time secret-scanning gate (scanSecrets / scanSecretsInternal) and the
\* blob reader over a cat-file batch channel (GetBlob / limitReaderCloser).
\*
\* Go strings that the code builds by concatenation are modelled as sequences
\* of tokens: "" is <<>>, a sha "A" is <<"A">>, and "A" + "^{commit}" is
\* <<"A", "^{commit}">>.  A *string is <<>> (nil) or <<s>> (pointer to s).
\* An error is the sequence of its wrapping messages, outermost first; the
\* nil error is <<>>.
EXTENDS Integers, Sequences, FiniteSets, TLC

\* ---------------------------------------------------------------- bounds
MaxRefs == 3        \* longest list of reference updates in one push
MaxSize == 3        \* largest declared blob size
MaxLimit == 4       \* largest sizeLimit passed to GetBlob
MaxBuf == 2         \* largest buffer handed to one Read
MaxCloses == 2      \* most Close calls on one stream
MaxConcRefs == 2    \* longest push of two concurrently evaluated pushes

\* ------------------------------------------------------------ value sets
NilSHA == "0000000000000000000000000000000000000000"
OldSHAs == {NilSHA, "A"}
NewSHAs == {NilSHA, "B", "C"}
FallbackSHAs == {"D", "E"}
FindingLists == {<<>>, <<"f1">>, <<"f1", "f2">>}

RefUpdate == [Old : OldSHAs, New : NewSHAs]

RECURSIVE SeqsUpTo(_, _)
SeqsUpTo(S, n) ==
    IF n = 0 THEN {<<>>}
    ELSE LET shorter == SeqsUpTo(S, n - 1)
         IN  shorter \cup {Append(s, x) : s \in {t \in shorter : Len(t) = n - 1}, x \in S}

Pushes == SeqsUpTo(RefUpdate, MaxRefs)

\* Pushes of the concurrent evaluations: newly created references, alone or
\* after an updated reference.
ConcPushes ==
    LET created == SeqsUpTo({[Old |-> NilSHA, New |-> "B"]}, MaxConcRefs)
    IN  created \cup {<<[Old |-> "A", New |-> "C"]>> \o p :
                         p \in {q \in created : Len(q) < MaxConcRefs}}

\* hook.Output as the caller hands it in: empty, or already carrying messages
\* and an error of an earlier pre-receive check.
BlockMsg == "Changes blocked by security scan results"
Outputs ==
    { [Messages |-> <<>>, Error |-> <<>>],
      [Messages |-> <<"earlier message">>, Error |-> <<>>],
      [Messages |-> <<"earlier message">>, Error |-> <<"earlier error">>] }

AllRuns == {1, 2}       \* identities of scanSecrets invocations
Runs == {1}             \* the invocations of the sequential specification

\* ------------------------------------------------------ Go value helpers
NilErr == <<>>
NilPtr == <<>>
Ptr(s) == <<s>>
Deref(p) == p[1]
Errorf(msg, cause) == <<msg>> \o cause

\* sha.SHA.IsNil on the reserved all-zero id.
IsNil(sha) == sha = NilSHA

\* ------------------------------------------------- collaborator outcomes
\* settings.RepoGet: (bool, error).
SettingsResults ==
    { [val |-> TRUE,  err |-> NilErr],
      [val |-> FALSE, err |-> NilErr],
      [val |-> FALSE, err |-> <<"settings lookup failed">>] }

\* GetBaseSHAForScanningChanges: (sha, available, error).
FallbackResults ==
    { [sha |-> s, available |-> TRUE, err |-> NilErr] : s \in FallbackSHAs }
    \cup { [sha |-> NilSHA, available |-> FALSE, err |-> NilErr],
           [sha |-> NilSHA, available |-> FALSE, err |-> <<"fallback discovery failed">>] }

\* rgit.ScanSecrets: (*ScanSecretsOutput, error).
ScanResults ==
    { [Findings |-> f, err |-> NilErr] : f \in FindingLists }
    \cup { [Findings |-> <<>>, err |-> <<"scan failed">>] }

\* A blocking collaborator call observes the caller context: once the context
\* is canceled the call fails.
Observe(canceled, results) ==
    IF canceled THEN {o \in results : o.err # NilErr} ELSE results

\* ------------------------------------------------------- pure code steps
\* scanSecretsResult.HasResults
HasResultsShort(findings) == Len(findings) > 1
HasResults(findings) == Len(findings) > 0

\* scanSecrets, after settings.RepoGet returned o: what the function does next.
SettingsStepInverted(o) ==
    IF o.err # NilErr
    THEN [next |-> "done",
          err |-> Errorf("failed to check settings whether secret scanning is enabled", o.err)]
    ELSE IF o.val THEN [next |-> "done", err |-> NilErr]
    ELSE [next |-> "loop", err |-> NilErr]
SettingsStepNoErrCheck(o) ==
    IF ~o.val THEN [next |-> "done", err |-> NilErr]
    ELSE [next |-> "loop", err |-> NilErr]
SettingsStep(o) ==
    IF o.err # NilErr
    THEN [next |-> "done",
          err |-> Errorf("failed to check settings whether secret scanning is enabled", o.err)]
    ELSE IF ~o.val THEN [next |-> "done", err |-> NilErr]
    ELSE [next |-> "loop", err |-> NilErr]

\* scanSecretsInternal: is the update a deleted reference (skipped)?
IsDeletedExisting(refUpdate) == refUpdate.New = NilSHA /\ ~IsNil(refUpdate.Old)
IsDeleted(refUpdate) == refUpdate.New = NilSHA

\* scanSecretsInternal: the revisions computed before the fallback is consulted.
CommitRev(sha) == <<sha, "^{commit}">>
BaseRevOf(refUpdate) == CommitRev(refUpdate.Old)
RevOfSwapped(refUpdate) == CommitRev(refUpdate.Old)
RevOf(refUpdate) == CommitRev(refUpdate.New)

\* scanSecretsInternal: the memo cell an invocation works on: baseRevFallBack is
\* a local variable of the call.
MemoCellShared(r) == 1
MemoCell(r) == r

\* scanSecretsInternal: must the fallback be discovered for this update?
NeedsFallbackAlways(refUpdate, baseRevFallBack) == IsNil(refUpdate.Old)
NeedsFallbackEmptyUnresolved(refUpdate, baseRevFallBack) ==
    IsNil(refUpdate.Old) /\ (baseRevFallBack = NilPtr \/ Deref(baseRevFallBack) = <<>>)
NeedsFallback(refUpdate, baseRevFallBack) ==
    IsNil(refUpdate.Old) /\ baseRevFallBack = NilPtr

\* scanSecretsInternal: the memo written after a successful fallback discovery.
FallbackMemo(o) == IF o.available THEN Ptr(<<o.sha>>) ELSE Ptr(<<>>)

\* scanSecretsInternal: what a finished ScanSecrets call does to the loop.
ScanStepNilOnErr(findings, o) ==
    IF o.err # NilErr
    THEN [next |-> "done", findings |-> <<>>, err |-> NilErr]
    ELSE [next |-> "loop", findings |-> findings \o o.Findings, err |-> NilErr]
ScanStepPrepend(findings, o) ==
    IF o.err # NilErr
    THEN [next |-> "done", findings |-> <<>>,
          err |-> Errorf("failed to scan for git leaks",
                         Errorf("failed to detect secret leaks", o.err))]
    ELSE [next |-> "loop", findings |-> o.Findings \o findings, err |-> NilErr]
ScanStepSwallowErr(findings, o) ==
    [next |-> "loop", findings |-> findings \o o.Findings, err |-> NilErr]
ScanStep(findings, o) ==
    IF o.err # NilErr
    THEN [next |-> "done", findings |-> <<>>,
          err |-> Errorf("failed to scan for git leaks",
                         Errorf("failed to detect secret leaks", o.err))]
    ELSE [next |-> "loop", findings |-> findings \o o.Findings, err |-> NilErr]

\* printScanSecretsFindings: one block per finding.
printScanSecretsFindings(messages, findings) ==
    messages \o [i \in 1..Len(findings) |-> <<"finding", findings[i]>>]

\* scanSecrets, after scanSecretsInternal returned findings without error.
RenderUnchecked(out, findings) ==
    [Messages |-> printScanSecretsFindings(out.Messages, findings) \o <<"", "">>,
     Error |-> <<BlockMsg>>]
Render(out, findings) ==
    IF ~HasResults(findings) THEN out
    ELSE [Messages |-> printScanSecretsFindings(out.Messages, findings) \o <<"", "">>,
          Error |-> <<BlockMsg>>]

\* scanSecrets, after scanSecretsInternal returned an error: the function
\* returns before anything is printed.
OutputOnErrorRendered(out, findings) == RenderUnchecked(out, findings)
OutputOnError(out, findings) == out

\* ---------------------------------------------------- blob reader values
BlobSHAs == {"s1", "s2"}
GitObjectTypeBlob == "blob"
ObjectTypes == {GitObjectTypeBlob, "tree", "commit"}
SizeLimits == (-1)..MaxLimit
\* Size limits of the concurrent reads: none, and one that cuts a payload.
ConcSizeLimits == {0, 2}
AllReads == {1, 2}      \* identities of GetBlob invocations
Reads == {1}            \* the invocations of the sequential specification

\* ReadBatchHeaderLine: (sha, type, size, error).
HeaderResults ==
    { [sha |-> s, typ |-> t, size |-> n, err |-> FALSE] :
         s \in BlobSHAs, t \in ObjectTypes, n \in 0..MaxSize }
    \cup { [sha |-> "", typ |-> "", size |-> 0, err |-> TRUE] }

\* What cat-file leaves on stdout after the header line of object sha of the
\* given size: the size payload bytes and the trailing separator.
Payload(sha, size) == [i \in 1..size |-> <<sha, i>>]
BatchBody(sha, size) == Payload(sha, size) \o <<"\n">>

NoBlob == <<>>
NoErr == [kind |-> "nil", msg |-> "", cause |-> ""]

\* GetBlob: the size of the content the reader is limited to.
contentSizeNoPositiveCheck(objectSize, sizeLimit) ==
    IF sizeLimit < objectSize THEN sizeLimit ELSE objectSize
contentSize(objectSize, sizeLimit) ==
    IF sizeLimit > 0 /\ sizeLimit < objectSize THEN sizeLimit ELSE objectSize

\* processGitErrorf: the error a failed read of the batch header is turned
\* into.  It wraps the underlying cause; which kind of error it builds is not
\* fixed here: it may be a kind another failure of GetBlob has as well, or a
\* kind of its own.
GitErrorKinds == {"fmt.Errorf", "errors.InvalidArgument", "transport"}
processGitErrorf(cause, msg) ==
    {[kind |-> kd, msg |-> msg, cause |-> cause] : kd \in GitErrorKinds}

\* CatFileBatch starts or reuses a batch process: call k gets pipes of its own
\* (channel k) or, on reuse, a channel that has been handed to a call before.
CatFileBatch(k, handed, reuse) == IF reuse THEN handed ELSE {k}

\* GetBlob: the channel a read works on is the one CatFileBatch has just
\* returned to it (stdIn, stdOut and cancel are locals of the call).
GetBlobChannelShared(fresh) == 1
GetBlobChannel(fresh) == fresh

\* GetBlob after a failed stdIn.Write.
WriteFailedNoCancel ==
    [blob |-> NoBlob, cancel |-> FALSE,
     err |-> [kind |-> "fmt.Errorf", msg |-> "failed to write blob sha to git stdin",
              cause |-> "write error"]]
WriteFailed ==
    [blob |-> NoBlob, cancel |-> TRUE,
     err |-> [kind |-> "fmt.Errorf", msg |-> "failed to write blob sha to git stdin",
              cause |-> "write error"]]

\* GetBlob after ReadBatchHeaderLine returned h: the checks of the header and
\* the BlobReader built from it.  cancel says whether cancel() was called;
\* gitErr is what processGitErrorf returned for a failed header read.
GetBlobReturn(sha, sizeLimit, h, gitErr) ==
    IF h.err
    THEN [blob |-> NoBlob, cancel |-> TRUE, err |-> gitErr]
    ELSE IF h.sha # sha
    THEN [blob |-> NoBlob, cancel |-> TRUE,
          err |-> [kind |-> "fmt.Errorf",
                   msg |-> "cat-file returned object sha but expected", cause |-> ""]]
    ELSE IF h.typ # GitObjectTypeBlob
    THEN [blob |-> NoBlob, cancel |-> TRUE,
          err |-> [kind |-> "errors.InvalidArgument",
                   msg |-> "cat-file returned object type but expected", cause |-> ""]]
    ELSE [blob |-> <<[SHA |-> sha, Size |-> h.size,
                      ContentSize |-> contentSize(h.size, sizeLimit)]>>,
          cancel |-> FALSE, err |-> NoErr]

Min(a, b) == IF a < b THEN a ELSE b

\* limitReaderCloser.Close: how often one Close call runs stop, given the
\* number of earlier Close calls and the bytes the reader may still deliver.
CloseStopsWhenDrained(closed, remaining) == IF remaining = 0 THEN 1 ELSE 0
CloseStopsFirstOnly(closed, remaining) == IF closed = 0 THEN 1 ELSE 0
CloseStops(closed, remaining) == 1

\* ----------------------------------------------------------------- state
VARIABLES
    pc,               \* per run: "idle", "settings", "loop", "fallback", "scan", "done"
    input,            \* per run: the arguments (RefUpdates, Output as handed in)
    idx,              \* per run: position of the range loop over in.RefUpdates
    baseRevFallBack,  \* per run: the *string memo of scanSecretsInternal
    baseRev,          \* per run: local baseRev of the current iteration
    rev,              \* per run: local rev of the current iteration
    findings,         \* per run: res.findings
    output,           \* per run: the *hook.Output being filled in
    err,              \* per run: the error scanSecrets returned
    calls,            \* per run: the collaborator calls made so far, in order
    ctxDone,          \* per run: the caller context has been canceled
    bpc,              \* per read: "idle", "write", "header", "open", "failed"
    req,              \* per read: the arguments of GetBlob (sha, sizeLimit)
    opened,           \* per read: the channel CatFileBatch handed to the call
    chan,             \* per read: the channel the read works on (0: none yet)
    stdin,            \* per channel: the lines written to the batch process
    stdout,           \* per channel: what the batch process has left to deliver
    header,           \* per read: what ReadBatchHeaderLine returned
    cancels,          \* per channel: how often the cancel of CatFileBatch has run
    blob,             \* per read: the *BlobReader returned (NoBlob: nil)
    blobErr,          \* per read: the error GetBlob returned
    limitN,           \* per read: bytes the io.LimitReader may still deliver
    delivered,        \* per read: the bytes Read has handed out, in order
    eof,              \* per read: a Read has returned io.EOF
    closes            \* per read: number of Close calls on Content

gateVars == <<pc, input, idx, baseRevFallBack, baseRev, rev, findings, output, err,
              calls, ctxDone>>

blobVars == <<bpc, req, opened, chan, stdin, stdout, header, cancels, blob, blobErr, limitN,
              delivered, eof, closes>>

vars == <<gateVars, blobVars>>

EmptyOutput == [Messages |-> <<>>, Error |-> <<>>]

Init ==
    /\ pc = [r \in AllRuns |-> "idle"]
    /\ input = [r \in AllRuns |-> [RefUpdates |-> <<>>, Output |-> EmptyOutput]]
    /\ idx = [r \in AllRuns |-> 0]
    /\ baseRevFallBack = [r \in AllRuns |-> NilPtr]
    /\ baseRev = [r \in AllRuns |-> <<>>]
    /\ rev = [r \in AllRuns |-> <<>>]
    /\ findings = [r \in AllRuns |-> <<>>]
    /\ output = [r \in AllRuns |-> EmptyOutput]
    /\ err = [r \in AllRuns |-> NilErr]
    /\ calls = [r \in AllRuns |-> <<>>]
    /\ ctxDone = [r \in AllRuns |-> FALSE]
    /\ bpc = [k \in AllReads |-> "idle"]
    /\ req = [k \in AllReads |-> [sha |-> "", sizeLimit |-> 0]]
    /\ opened = [k \in AllReads |-> 0]
    /\ chan = [k \in AllReads |-> 0]
    /\ stdin = [c \in AllReads |-> <<>>]
    /\ stdout = [c \in AllReads |-> <<>>]
    /\ header = [k \in AllReads |-> [sha |-> "", typ |-> "", size |-> 0, err |-> FALSE]]
    /\ cancels = [c \in AllReads |-> 0]
    /\ blob = [k \in AllReads |-> NoBlob]
    /\ blobErr = [k \in AllReads |-> NoErr]
    /\ limitN = [k \in AllReads |-> 0]
    /\ delivered = [k \in AllReads |-> <<>>]
    /\ eof = [k \in AllReads |-> FALSE]
    /\ closes = [k \in AllReads |-> 0]

\* The record of one collaborator call.
Call(fn, i, b, v, canceled, result) ==
    [fn |-> fn, idx |-> i, BaseRev |-> b, Rev |-> v, canceled |-> canceled,
     result |-> result]

\* --------------------------------------------------------------- actions
\* scanSecrets is entered with a push and an Output.
Enter(r, pushes, outs) ==
    /\ pc[r] = "idle"
    /\ \E refUpdates \in pushes, out \in outs :
          /\ input' = [input EXCEPT ![r] = [RefUpdates |-> refUpdates, Output |-> out]]
          /\ output' = [output EXCEPT ![r] = out]
    /\ pc' = [pc EXCEPT ![r] = "settings"]
    /\ UNCHANGED blobVars
    /\ UNCHANGED <<idx, baseRevFallBack, baseRev, rev, findings, err, calls, ctxDone>>

scanSecrets(r) == Enter(r, Pushes, Outputs)
scanSecretsConc(r) == Enter(r, ConcPushes, {EmptyOutput})

\* The caller cancels the context while scanSecrets is running.
Cancel(r) ==
    /\ pc[r] \notin {"idle", "done"}
    /\ ~ctxDone[r]
    /\ ctxDone' = [ctxDone EXCEPT ![r] = TRUE]
    /\ UNCHANGED blobVars
    /\ UNCHANGED <<pc, input, idx, baseRevFallBack, baseRev, rev, findings, output,
                   err, calls>>

\* settings.RepoGet and the two early returns of scanSecrets.
RepoGet(r) ==
    /\ pc[r] = "settings"
    /\ \E o \in Observe(ctxDone[r], SettingsResults) :
          LET step == SettingsStep(o) IN
          /\ calls' = [calls EXCEPT ![r] =
                          Append(@, Call("RepoGet", 0, <<>>, <<>>, ctxDone[r], o))]
          /\ pc' = [pc EXCEPT ![r] = step.next]
          /\ err' = [err EXCEPT ![r] = step.err]
          /\ idx' = [idx EXCEPT ![r] = 1]
    /\ UNCHANGED blobVars
    /\ UNCHANGED <<input, baseRevFallBack, baseRev, rev, findings, output, ctxDone>>

\* Loop head on a deleted reference: continue.
SkipDeleted(r) ==
    /\ pc[r] = "loop"
    /\ idx[r] <= Len(input[r].RefUpdates)
    /\ IsDeleted(input[r].RefUpdates[idx[r]])
    /\ idx' = [idx EXCEPT ![r] = @ + 1]
    /\ UNCHANGED blobVars
    /\ UNCHANGED <<pc, input, baseRevFallBack, baseRev, rev, findings, output, err,
                   calls, ctxDone>>

\* Loop head on a live reference: compute baseRev and rev, and either go on to
\* discover the fallback, or take the memoized fallback, or keep old as base.
ComputeRange(r) ==
    /\ pc[r] = "loop"
    /\ idx[r] <= Len(input[r].RefUpdates)
    /\ LET refUpdate == input[r].RefUpdates[idx[r]] IN
          /\ ~IsDeleted(refUpdate)
          /\ rev' = [rev EXCEPT ![r] = RevOf(refUpdate)]
          /\ IF NeedsFallback(refUpdate, baseRevFallBack[MemoCell(r)])
             THEN /\ baseRev' = [baseRev EXCEPT ![r] = BaseRevOf(refUpdate)]
                  /\ pc' = [pc EXCEPT ![r] = "fallback"]
             ELSE /\ baseRev' = [baseRev EXCEPT ![r] =
                                    IF IsNil(refUpdate.Old)
                                    THEN Deref(baseRevFallBack[MemoCell(r)])
                                    ELSE BaseRevOf(refUpdate)]
                  /\ pc' = [pc EXCEPT ![r] = "scan"]
    /\ UNCHANGED blobVars
    /\ UNCHANGED <<input, idx, baseRevFallBack, findings, output, err, calls, ctxDone>>

\* GetBaseSHAForScanningChanges and the memoization of its answer.
GetBaseSHAForScanningChanges(r) ==
    /\ pc[r] = "fallback"
    /\ \E o \in Observe(ctxDone[r], FallbackResults) :
          /\ calls' = [calls EXCEPT ![r] =
                          Append(@, Call("GetBaseSHAForScanningChanges", idx[r],
                                         <<>>, <<>>, ctxDone[r], o))]
          /\ IF o.err # NilErr
             THEN /\ err' = [err EXCEPT ![r] =
                                Errorf("failed to scan for git leaks",
                                       Errorf("failed to get fallback sha", o.err))]
                  /\ findings' = [findings EXCEPT ![r] = <<>>]
                  /\ output' = [output EXCEPT ![r] = OutputOnError(@, findings[r])]
                  /\ pc' = [pc EXCEPT ![r] = "done"]
                  /\ UNCHANGED <<baseRevFallBack, baseRev>>
             ELSE /\ baseRevFallBack' = [baseRevFallBack EXCEPT ![MemoCell(r)] =
                                            FallbackMemo(o)]
                  /\ baseRev' = [baseRev EXCEPT ![r] = Deref(FallbackMemo(o))]
                  /\ pc' = [pc EXCEPT ![r] = "scan"]
                  /\ UNCHANGED <<err, findings, output>>
    /\ UNCHANGED blobVars
    /\ UNCHANGED <<input, idx, rev, ctxDone>>

\* rgit.ScanSecrets over (baseRev, rev] and the accumulation of its findings.
ScanSecrets(r) ==
    /\ pc[r] = "scan"
    /\ \E o \in Observe(ctxDone[r], ScanResults) :
          LET step == ScanStep(findings[r], o) IN
          /\ calls' = [calls EXCEPT ![r] =
                          Append(@, Call("ScanSecrets", idx[r], baseRev[r], rev[r],
                                         ctxDone[r], o))]
          /\ findings' = [findings EXCEPT ![r] = step.findings]
          /\ err' = [err EXCEPT ![r] = step.err]
          /\ pc' = [pc EXCEPT ![r] = step.next]
          /\ idx' = [idx EXCEPT ![r] = IF step.next = "loop" THEN @ + 1 ELSE @]
          /\ output' = [output EXCEPT ![r] =
                           IF step.err # NilErr THEN OutputOnError(@, findings[r]) ELSE @]
    /\ UNCHANGED blobVars
    /\ UNCHANGED <<input, baseRevFallBack, baseRev, rev, ctxDone>>

\* The loop is exhausted: scanSecretsInternal returns res, and scanSecrets
\* renders the findings (if any) and returns nil.
Return(r) ==
    /\ pc[r] = "loop"
    /\ idx[r] > Len(input[r].RefUpdates)
    /\ output' = [output EXCEPT ![r] = Render(@, findings[r])]
    /\ err' = [err EXCEPT ![r] = NilErr]
    /\ pc' = [pc EXCEPT ![r] = "done"]
    /\ UNCHANGED blobVars
    /\ UNCHANGED <<input, idx, baseRevFallBack, baseRev, rev, findings, calls, ctxDone>>

Next ==
    \E r \in Runs :
        \/ scanSecrets(r)
        \/ Cancel(r)
        \/ RepoGet(r)
        \/ SkipDeleted(r)
        \/ ComputeRange(r)
        \/ GetBaseSHAForScanningChanges(r)
        \/ ScanSecrets(r)
        \/ Return(r)

Spec == Init /\ [][Next]_vars

\* Two evaluations of two pushes, their steps interleaved in any order.
NextConc ==
    \E r \in AllRuns :
        \/ scanSecretsConc(r)
        \/ RepoGet(r)
        \/ ComputeRange(r)
        \/ GetBaseSHAForScanningChanges(r)
        \/ ScanSecrets(r)
        \/ Return(r)

SpecConc == Init /\ [][NextConc]_vars

\* GetBlob is entered: CatFileBatch hands back the stdin, the stdout and the
\* cancel of a batch process.
Open(k, limits) ==
    /\ bpc[k] = "idle"
    /\ \E sha \in BlobSHAs, sizeLimit \in limits :
          req' = [req EXCEPT ![k] = [sha |-> sha, sizeLimit |-> sizeLimit]]
    /\ \E reuse \in BOOLEAN :
       \E c \in CatFileBatch(k, {opened[j] : j \in {i \in AllReads : bpc[i] # "idle"}},
                             reuse) :
          /\ opened' = [opened EXCEPT ![k] = c]
          /\ chan' = [chan EXCEPT ![k] = GetBlobChannel(c)]
    /\ bpc' = [bpc EXCEPT ![k] = "write"]
    /\ UNCHANGED gateVars
    /\ UNCHANGED <<stdin, stdout, header, cancels, blob, blobErr, limitN, delivered,
                   eof, closes>>

GetBlob(k) == Open(k, SizeLimits)
GetBlobConc(k) == Open(k, ConcSizeLimits)

\* stdIn.Write(sha + "\n"), which may fail.
WriteSHA(k) ==
    /\ bpc[k] = "write"
    /\ \/ /\ stdin' = [stdin EXCEPT ![chan[k]] = Append(@, <<req[k].sha, "\n">>)]
          /\ bpc' = [bpc EXCEPT ![k] = "header"]
          /\ UNCHANGED <<cancels, blobErr>>
       \/ /\ cancels' = [cancels EXCEPT ![chan[k]] =
                            IF WriteFailed.cancel THEN @ + 1 ELSE @]
          /\ blobErr' = [blobErr EXCEPT ![k] = WriteFailed.err]
          /\ bpc' = [bpc EXCEPT ![k] = "failed"]
          /\ UNCHANGED stdin
    /\ UNCHANGED gateVars
    /\ UNCHANGED <<req, opened, chan, stdout, header, blob, limitN, delivered, eof, closes>>

\* ReadBatchHeaderLine and the rest of GetBlob: the header checks, the content
\* size and the limit reader around stdout.  After the header line the batch
\* process has the payload and the separator of the object on stdout.
ReadBatchHeaderLine(k) ==
    /\ bpc[k] = "header"
    /\ \E h \in HeaderResults :
       \E gitErr \in (IF h.err
                      THEN processGitErrorf("read error",
                                            "failed to read cat-file batch line")
                      ELSE {NoErr}) :
          LET ret == GetBlobReturn(req[k].sha, req[k].sizeLimit, h, gitErr) IN
          /\ header' = [header EXCEPT ![k] = h]
          /\ stdout' = [stdout EXCEPT ![chan[k]] =
                           IF h.err THEN @ ELSE @ \o BatchBody(h.sha, h.size)]
          /\ cancels' = [cancels EXCEPT ![chan[k]] = IF ret.cancel THEN @ + 1 ELSE @]
          /\ blob' = [blob EXCEPT ![k] = ret.blob]
          /\ blobErr' = [blobErr EXCEPT ![k] = ret.err]
          /\ limitN' = [limitN EXCEPT ![k] =
                           IF ret.blob = NoBlob THEN 0 ELSE ret.blob[1].ContentSize]
          /\ bpc' = [bpc EXCEPT ![k] = IF ret.blob = NoBlob THEN "failed" ELSE "open"]
    /\ UNCHANGED gateVars
    /\ UNCHANGED <<req, opened, chan, stdin, delivered, eof, closes>>

\* limitReaderCloser.Read into a buffer of n bytes: io.LimitedReader returns
\* io.EOF once its budget is used up, else cuts the buffer to the budget and
\* reads once from stdout, which may deliver fewer bytes than asked for.  It
\* does not test whether stop has run: what stdout still holds may be
\* delivered after a cancel, and a read that fails leaves the state as it is.
Read(k) ==
    /\ bpc[k] = "open"
    /\ \E n \in 0..MaxBuf :
          IF limitN[k] <= 0
          THEN /\ eof' = [eof EXCEPT ![k] = TRUE]
               /\ UNCHANGED <<stdout, limitN, delivered>>
          ELSE /\ \E m \in 1..Min(Min(n, limitN[k]), Len(stdout[chan[k]])) :
                     /\ delivered' = [delivered EXCEPT ![k] =
                                         @ \o SubSeq(stdout[chan[k]], 1, m)]
                     /\ stdout' = [stdout EXCEPT ![chan[k]] = SubSeq(@, m + 1, Len(@))]
                     /\ limitN' = [limitN EXCEPT ![k] = @ - m]
               /\ UNCHANGED eof
    /\ UNCHANGED gateVars
    /\ UNCHANGED <<bpc, req, opened, chan, stdin, header, cancels, blob, blobErr, closes>>

\* limitReaderCloser.Close: runs stop, the cancel of the read's channel.
Close(k) ==
    /\ bpc[k] = "open"
    /\ closes[k] < MaxCloses
    /\ closes' = [closes EXCEPT ![k] = @ + 1]
    /\ cancels' = [cancels EXCEPT ![chan[k]] = @ + CloseStops(closes[k], limitN[k])]
    /\ UNCHANGED gateVars
    /\ UNCHANGED <<bpc, req, opened, chan, stdin, stdout, header, blob, blobErr, limitN,
                   delivered, eof>>

NextBlob ==
    \E k \in Reads :
        \/ GetBlob(k)
        \/ WriteSHA(k)
        \/ ReadBatchHeaderLine(k)
        \/ Read(k)
        \/ Close(k)

SpecBlob == Init /\ [][NextBlob]_vars

\* Two GetBlob calls and the reads of their streams, interleaved in any order.
NextBlobConc ==
    \E k \in AllReads :
        \/ GetBlobConc(k)
        \/ WriteSHA(k)
        \/ ReadBatchHeaderLine(k)
        \/ Read(k)
        \/ Close(k)

SpecBlobConc == Init /\ [][NextBlobConc]_vars

\* ------------------------------------------------- reading the call log
FallbackCalls(r) ==
    {i \in DOMAIN calls[r] : calls[r][i].fn = "GetBaseSHAForScanningChanges"}
ScanCalls(r) == {i \in DOMAIN calls[r] : calls[r][i].fn = "ScanSecrets"}
\* Positions of the push's newly created, not deleted references.
NewRefs(r) ==
    {k \in DOMAIN input[r].RefUpdates :
        input[r].RefUpdates[k].New # NilSHA /\ input[r].RefUpdates[k].Old = NilSHA}
LiveRefs(r) ==
    {k \in DOMAIN input[r].RefUpdates : input[r].RefUpdates[k].New # NilSHA}
\* The base a successful fallback discovery stands for.
ResolvedBase(o) == IF o.available THEN <<o.sha>> ELSE <<>>
\* All findings the scan calls of the log returned, in call order.
RECURSIVE LoggedFindings(_)
LoggedFindings(cs) ==
    IF cs = <<>> THEN <<>>
    ELSE (IF Head(cs).fn = "ScanSecrets" THEN Head(cs).result.Findings ELSE <<>>)
         \o LoggedFindings(Tail(cs))
Blocked(r) == output[r].Error = <<BlockMsg>>

\* ---------------------------------------------------------------- claims
\* C1: one run invokes fallback discovery at most once, for the first
\* non-deleted update with old == NilSHA in list order, and every scan of a
\* newly created reference of the push uses the base that one call resolved.
C1_FallbackAtMostOnce ==
    \A r \in AllRuns :
        /\ Cardinality(FallbackCalls(r)) <= 1
        /\ \A i \in FallbackCalls(r) :
              /\ calls[r][i].idx \in NewRefs(r)
              /\ \A k \in NewRefs(r) : calls[r][i].idx <= k
        /\ \A j \in ScanCalls(r) :
              calls[r][j].idx \in NewRefs(r) =>
                 \E i \in FallbackCalls(r) :
                    /\ i < j
                    /\ calls[r][i].result.err = NilErr
                    /\ calls[r][j].BaseRev = ResolvedBase(calls[r][i].result)
\* Two newly created references of one push were scanned after one discovery.
C1_Witness ==
    /\ pc[1] = "done"
    /\ err[1] = NilErr
    /\ Cardinality(FallbackCalls(1)) = 1
    /\ \E j, k \in ScanCalls(1) :
          /\ j < k
          /\ calls[1][j].idx \in NewRefs(1)
          /\ calls[1][k].idx \in NewRefs(1)
          /\ calls[1][j].BaseRev = <<"D">>
          /\ calls[1][k].BaseRev = <<"D">>

\* C2: no scan call and no fallback call is made for an update whose new is
\* NilSHA (also when its old is NilSHA); a push of deletions only ends with no
\* scan call, no fallback call, no block, and no error of the scan.
C2_DeletionsNeverScanned ==
    \A r \in AllRuns :
        /\ \A i \in FallbackCalls(r) \cup ScanCalls(r) :
              input[r].RefUpdates[calls[r][i].idx].New # NilSHA
        /\ (pc[r] = "done" /\ LiveRefs(r) = {}) =>
              /\ FallbackCalls(r) \cup ScanCalls(r) = {}
              /\ output[r] = input[r].Output
              /\ (calls[r][1].result.err = NilErr => err[r] = NilErr)
\* An enabled run finished a push of two deletions, one of a reference that
\* never existed.
C2_Witness ==
    /\ pc[1] = "done"
    /\ Len(input[1].RefUpdates) >= 2
    /\ LiveRefs(1) = {}
    /\ \E k \in DOMAIN input[1].RefUpdates : input[1].RefUpdates[k].Old = NilSHA
    /\ \E k \in DOMAIN input[1].RefUpdates : input[1].RefUpdates[k].Old # NilSHA
    /\ calls[1][1].result.val
    /\ err[1] = NilErr

\* C3: Output.Error carries the block message exactly when scanSecrets has
\* returned nil with non-empty accumulated findings; otherwise Output.Error is
\* what the caller handed in.
C3_BlockIffFindings ==
    \A r \in AllRuns :
        /\ Blocked(r) <=>
              (pc[r] = "done" /\ err[r] = NilErr /\ LoggedFindings(calls[r]) # <<>>)
        /\ ~Blocked(r) => output[r].Error = input[r].Output.Error
\* A push was blocked: nil error, findings, block message set.
C3_Witness ==
    /\ pc[1] = "done"
    /\ err[1] = NilErr
    /\ Len(LoggedFindings(calls[1])) = 1
    /\ Blocked(1)

\* C4: when the setting resolves to false, scanSecrets makes no fallback and no
\* scan call, returns nil, and leaves Output as handed in.
C4_DisabledDoesNothing ==
    \A r \in AllRuns :
        (Len(calls[r]) >= 1 /\ calls[r][1].result.err = NilErr /\ ~calls[r][1].result.val) =>
            /\ pc[r] = "done"
            /\ Len(calls[r]) = 1
            /\ err[r] = NilErr
            /\ output[r] = input[r].Output
\* Scanning was disabled for a push that had a reference to scan.
C4_Witness ==
    /\ pc[1] = "done"
    /\ Len(calls[1]) = 1
    /\ calls[1][1].result.err = NilErr
    /\ ~calls[1][1].result.val
    /\ NewRefs(1) # {}
    /\ input[1].Output.Messages # <<>>

\* C5: when the settings lookup fails, scanSecrets returns a non-nil error,
\* makes no fallback and no scan call, and leaves Output as handed in.
C5_SettingsErrorFailsClosed ==
    \A r \in AllRuns :
        (Len(calls[r]) >= 1 /\ calls[r][1].result.err # NilErr) =>
            /\ pc[r] = "done"
            /\ Len(calls[r]) = 1
            /\ err[r] # NilErr
            /\ output[r] = input[r].Output
\* The settings lookup failed for a push that had a reference to scan.
C5_Witness ==
    /\ pc[1] = "done"
    /\ Len(calls[1]) = 1
    /\ calls[1][1].result.err # NilErr
    /\ ~ctxDone[1]
    /\ LiveRefs(1) # {}
    /\ err[1] # NilErr

\* C6: a failed fallback discovery or scan call is the last collaborator call
\* of the run: the run is over, with a non-nil error and no block decision.
C6_AbortOnFirstFailure ==
    \A r \in AllRuns :
        \A i \in FallbackCalls(r) \cup ScanCalls(r) :
            calls[r][i].result.err # NilErr =>
                /\ i = Len(calls[r])
                /\ pc[r] = "done"
                /\ err[r] # NilErr
                /\ ~Blocked(r)
\* A scan failed after an earlier scan had found secrets and before a later
\* reference was looked at.
C6_Witness ==
    /\ pc[1] = "done"
    /\ ~ctxDone[1]
    /\ Len(calls[1]) >= 3
    /\ calls[1][Len(calls[1])].fn = "ScanSecrets"
    /\ calls[1][Len(calls[1])].result.err # NilErr
    /\ LoggedFindings(calls[1]) # <<>>
    /\ \E k \in LiveRefs(1) : k > calls[1][Len(calls[1])].idx

\* C7: every scan call is for a non-deleted update, with rev derived from new,
\* and with base derived from old when old is not NilSHA, else the fallback id
\* this run resolved, or the empty string when no fallback was available.
C7_ScanRange ==
    \A r \in AllRuns :
        \A j \in ScanCalls(r) :
            LET refUpdate == input[r].RefUpdates[calls[r][j].idx] IN
            /\ refUpdate.New # NilSHA
            /\ calls[r][j].Rev = <<refUpdate.New, "^{commit}">>
            /\ IF refUpdate.Old # NilSHA
               THEN calls[r][j].BaseRev = <<refUpdate.Old, "^{commit}">>
               ELSE \E i \in FallbackCalls(r) :
                       /\ i < j
                       /\ calls[r][i].result.err = NilErr
                       /\ calls[r][j].BaseRev =
                             (IF calls[r][i].result.available
                              THEN <<calls[r][i].result.sha>> ELSE <<>>)
\* One run scanned an existing reference from old and a new reference from the
\* root, after discovery reported that no fallback exists.
C7_Witness ==
    /\ pc[1] = "done"
    /\ \E j, k \in ScanCalls(1) :
          /\ calls[1][j].BaseRev = <<"A", "^{commit}">>
          /\ calls[1][j].Rev = <<"B", "^{commit}">>
          /\ calls[1][k].BaseRev = <<>>
          /\ calls[1][k].Rev = <<"C", "^{commit}">>

\* C8 as stated: a run whose context was canceled before it returned has
\* returned a non-nil error.
C8_CanceledAlwaysErrors ==
    \A r \in AllRuns : (pc[r] = "done" /\ ctxDone[r]) => err[r] # NilErr
\* C8: a collaborator call made after the cancellation is the last call of the
\* run and makes scanSecrets return a non-nil error; scanSecrets itself never
\* inspects the context.
C8_CanceledCallErrors ==
    \A r \in AllRuns :
        \A i \in DOMAIN calls[r] :
            calls[r][i].canceled =>
                /\ i = Len(calls[r])
                /\ pc[r] = "done"
                /\ err[r] # NilErr
                /\ ~Blocked(r)
\* The context was canceled between two scans; the second scan failed the run.
C8_Witness ==
    /\ pc[1] = "done"
    /\ ctxDone[1]
    /\ Len(calls[1]) >= 3
    /\ calls[1][Len(calls[1])].fn = "ScanSecrets"
    /\ calls[1][Len(calls[1])].canceled
    /\ ~calls[1][Len(calls[1]) - 1].canceled
    /\ err[1] # NilErr

\* C9: a successful read of an object of declared size S under limit L returns
\* Size = S and ContentSize = min(S, L) when L > 0, else S; the stream hands out
\* the first bytes of the payload, never more than ContentSize of them, and has
\* handed out exactly ContentSize when it reports end-of-stream.
C9_ContentSizeAndStream ==
    \A k \in AllReads :
        bpc[k] = "open" =>
            LET S == header[k].size
                L == req[k].sizeLimit
            IN  /\ blob[k][1].Size = S
                /\ blob[k][1].ContentSize = (IF L > 0 THEN Min(S, L) ELSE S)
                /\ Len(delivered[k]) <= blob[k][1].ContentSize
                /\ delivered[k] = SubSeq(Payload(req[k].sha, S), 1, Len(delivered[k]))
                /\ eof[k] => Len(delivered[k]) = blob[k][1].ContentSize
\* A blob of 3 bytes read under a limit of 2 reached end-of-stream after 2 bytes.
C9_Witness ==
    /\ bpc[1] = "open"
    /\ header[1].size = 3
    /\ req[1].sizeLimit = 2
    /\ eof[1]
    /\ Len(delivered[1]) = 2
    /\ closes[1] = 0

\* The kinds of the errors GetBlob builds itself for a failure other than an id
\* mismatch: the failed request write and the wrong object type.
OtherFailureKinds ==
    {WriteFailed.err.kind,
     GetBlobReturn("s1", 0, [sha |-> "s1", typ |-> "tree", size |-> 0, err |-> FALSE],
                   NoErr).err.kind}

\* C10: when the header carries another object id than the one requested,
\* GetBlob returns no stream and an error of the id-mismatch kind, a kind no
\* other failure of GetBlob has; cancel has run once and the batch process of
\* this read has received no request but this one.
C10_MismatchIsProtocolMismatch ==
    \A k \in AllReads :
        ( /\ bpc[k] \in {"open", "failed"}
          /\ Len(stdin[chan[k]]) = 1
          /\ ~header[k].err
          /\ header[k].sha # req[k].sha ) =>
            /\ bpc[k] = "failed"
            /\ blob[k] = NoBlob
            /\ blobErr[k].kind \notin OtherFailureKinds
            /\ cancels[chan[k]] = 1
            /\ stdin[chan[k]] = << <<req[k].sha, "\n">> >>

\* ------------------------------------------------ reading a failed GetBlob
\* The first thing that went wrong in a failed read.
FailureCause(k) ==
    IF header[k].err THEN "header read"
    ELSE IF header[k].sha = "" THEN "request write"
    ELSE IF header[k].sha # req[k].sha THEN "id mismatch"
    ELSE "object type"
\* The three failure modes the error kinds are meant to tell apart.
FailureClass(k) ==
    IF FailureCause(k) \in {"header read", "request write"} THEN "transport"
    ELSE FailureCause(k)
FailedReads == {k \in AllReads : bpc[k] = "failed"}

\* C11 as stated: two failed reads of different failure modes (transport, id
\* mismatch, object type) never carry errors of the same kind.
C11_KindsPairwiseDistinct ==
    \A k1, k2 \in FailedReads :
        FailureClass(k1) # FailureClass(k2) => blobErr[k1].kind # blobErr[k2].kind

\* C12: once Close has been called on a stream, stop has run, whether none,
\* some or all of the ContentSize bytes had been read before.
C12_CloseAlwaysStops ==
    \A k \in AllReads :
        (bpc[k] = "open" /\ closes[k] >= 1) => cancels[chan[k]] >= 1
\* A stream of 3 bytes was closed after 1 byte had been read.
C12_Witness ==
    /\ bpc[1] = "open"
    /\ blob[1][1].ContentSize = 3
    /\ Len(delivered[1]) = 1
    /\ ~eof[1]
    /\ closes[1] = 1
    /\ cancels[chan[1]] >= 1

\* A read's traffic is its own: its channel has carried no request line but
\* its own, and what it was handed plus what is still on its stdout is the
\* payload and separator of the object its header announced.
OwnTraffic(k) ==
    /\ \/ stdin[chan[k]] = <<>>
       \/ stdin[chan[k]] = << <<req[k].sha, "\n">> >>
    /\ bpc[k] = "open" =>
          delivered[k] \o stdout[chan[k]] = BatchBody(header[k].sha, header[k].size)
\* CatFileBatch has handed the channel of read k to no other call.
HandedToNoOther(k) ==
    \A j \in AllReads \ {k} : bpc[j] # "idle" => opened[j] # opened[k]

C18_EveryExitAccounted ==
    \A k \in AllReads :
        /\ bpc[k] \in {"write", "header"} => cancels[chan[k]] = 0
        /\ bpc[k] = "failed" =>
              /\ cancels[chan[k]] = 1
              /\ blob[k] = NoBlob
              /\ blobErr[k] # NoErr
        /\ bpc[k] = "open" =>
              /\ blob[k] # NoBlob
              /\ blobErr[k] = NoErr
              /\ closes[k] = 0 => cancels[chan[k]] = 0
\* GetBlob failed on writing the request and canceled the batch process.
C18_Witness ==
    /\ bpc[1] = "failed"
    /\ FailureCause(1) = "request write"
    /\ blob[1] = NoBlob
    /\ cancels[chan[1]] = 1

\* C19 as stated: on a stream that has been closed, however often, stop has
\* run exactly once.
C19_StopRunsOnce ==
    \A k \in AllReads :
        (bpc[k] = "open" /\ closes[k] >= 1) => cancels[chan[k]] = 1
\* C19: every Close call runs stop once more, whatever Read calls surround it:
\* stop has run as often as the stream has been closed.
C19_StopRunsPerClose ==
    \A k \in AllReads : bpc[k] = "open" => cancels[chan[k]] = closes[k]
\* A stream was read from and closed twice; stop has run twice.
C19_Witness ==
    /\ bpc[1] = "open"
    /\ Len(delivered[1]) >= 1
    /\ closes[1] = 2
    /\ cancels[chan[1]] = 2

\* ------------------------------------------------ reading a finished run
\* The run got past the settings check with scanning enabled.
Enabled(r) ==
    /\ Len(calls[r]) >= 1
    /\ calls[r][1].result.err = NilErr
    /\ calls[r][1].result.val
NoCallFailed(r) == \A i \in DOMAIN calls[r] : calls[r][i].result.err = NilErr
\* The fallback calls of the run that resolved the base (to an id or to none).
ResolvingCalls(r) == {i \in FallbackCalls(r) : calls[r][i].result.err = NilErr}

\* C14: when scanning is enabled and every scan call of the push returned zero
\* findings, scanSecrets returns nil and Output is exactly what was handed in.
C14_NoFindingsNoEffect ==
    \A r \in AllRuns :
        ( /\ pc[r] = "done"
          /\ Enabled(r)
          /\ NoCallFailed(r)
          /\ LoggedFindings(calls[r]) = <<>> ) =>
            /\ err[r] = NilErr
            /\ output[r] = input[r].Output
\* Two references were scanned, nothing was found, and the messages the caller
\* handed in are all the Output holds.
C14_Witness ==
    /\ pc[1] = "done"
    /\ Enabled(1)
    /\ NoCallFailed(1)
    /\ Cardinality(ScanCalls(1)) = 2
    /\ LoggedFindings(calls[1]) = <<>>
    /\ input[1].Output.Messages # <<>>
    /\ output[1] = input[1].Output

\* C15: scan calls are made for live updates in list order, never twice for
\* one update; a run that ends without a collaborator error has scanned every
\* live update exactly once, and its accumulated findings are the findings of
\* the calls concatenated in call order.
C15_OneScanPerLiveRefInOrder ==
    \A r \in AllRuns :
        /\ \A i, j \in ScanCalls(r) : i < j => calls[r][i].idx < calls[r][j].idx
        /\ \A i \in ScanCalls(r) : calls[r][i].idx \in LiveRefs(r)
        /\ (pc[r] = "done" /\ Enabled(r) /\ NoCallFailed(r)) =>
              /\ {calls[r][i].idx : i \in ScanCalls(r)} = LiveRefs(r)
              /\ findings[r] = LoggedFindings(calls[r])
\* Updates 1 and 3 of a push were scanned around a deletion; the one finding of
\* the first scan precedes the two of the second.
C15_Witness ==
    /\ pc[1] = "done"
    /\ err[1] = NilErr
    /\ LiveRefs(1) = {1, 3}
    /\ \E i, j \in ScanCalls(1) :
          /\ i < j
          /\ calls[1][i].result.Findings = <<"f1">>
          /\ calls[1][j].result.Findings = <<"f1", "f2">>
    /\ findings[1] = <<"f1", "f1", "f2">>

\* C16: when scanSecrets returns a non-nil error, Output is exactly what was
\* handed in and carries no block decision of this run, and the findings
\* gathered before the failure are dropped.
C16_ErrorLeavesOutput ==
    \A r \in AllRuns :
        (pc[r] = "done" /\ err[r] # NilErr) =>
            /\ output[r] = input[r].Output
            /\ ~Blocked(r)
            /\ findings[r] = <<>>
\* A scan failed after an earlier scan of the push had found a secret.
C16_Witness ==
    /\ pc[1] = "done"
    /\ err[1] # NilErr
    /\ ~ctxDone[1]
    /\ LoggedFindings(calls[1]) # <<>>
    /\ calls[1][Len(calls[1])].fn = "ScanSecrets"
    /\ output[1] = input[1].Output

\* C17: a resolved fallback memo never changes again; and once discovery has
\* reported that no base is available, it is the only discovery of the run and
\* every later scan of a newly created reference gets the empty base.
C17_MemoOnlyResolves ==
    /\ [][\A c \in AllRuns :
             baseRevFallBack[c] # NilPtr => baseRevFallBack'[c] = baseRevFallBack[c]]_vars
    /\ [](\A r \in AllRuns :
             \A i \in ResolvingCalls(r) :
                 ~calls[r][i].result.available =>
                     /\ FallbackCalls(r) = {i}
                     /\ baseRevFallBack[r] = Ptr(<<>>)
                     /\ \A j \in ScanCalls(r) :
                           (j > i /\ calls[r][j].idx \in NewRefs(r)) =>
                               calls[r][j].BaseRev = <<>>)
\* Discovery found no base; two new references were then scanned from the root.
C17_Witness ==
    /\ pc[1] = "done"
    /\ baseRevFallBack[1] = Ptr(<<>>)
    /\ Cardinality(FallbackCalls(1)) = 1
    /\ \E j, k \in ScanCalls(1) :
          /\ j < k
          /\ calls[1][j].idx \in NewRefs(1)
          /\ calls[1][k].idx \in NewRefs(1)
          /\ calls[1][j].BaseRev = <<>>
          /\ calls[1][k].BaseRev = <<>>

\* C20: under any interleaving of two runs, the memo of a run holds what this
\* run's own discovery resolved (nil before it), the scans of its new
\* references use that base, and a run that ends without a collaborator error
\* has made one discovery call if its push creates a reference, else none.
C20_RunsShareNothing ==
    \A r \in AllRuns :
        /\ baseRevFallBack[r] =
              (IF ResolvingCalls(r) = {} THEN NilPtr
               ELSE Ptr(ResolvedBase(calls[r][CHOOSE i \in ResolvingCalls(r) : TRUE].result)))
        /\ \A j \in ScanCalls(r) :
              calls[r][j].idx \in NewRefs(r) =>
                 \E i \in ResolvingCalls(r) :
                    i < j /\ calls[r][j].BaseRev = ResolvedBase(calls[r][i].result)
        /\ (pc[r] = "done" /\ Enabled(r) /\ NoCallFailed(r)) =>
              Cardinality(FallbackCalls(r)) = (IF NewRefs(r) = {} THEN 0 ELSE 1)
\* Two runs each created a reference; discovery resolved D for one and E for
\* the other, and each scanned from its own base.
C20_Witness ==
    /\ pc[1] = "done"
    /\ pc[2] = "done"
    /\ baseRevFallBack[1] = Ptr(<<"D">>)
    /\ baseRevFallBack[2] = Ptr(<<"E">>)
    /\ \E j \in ScanCalls(1) : calls[1][j].BaseRev = <<"D">>
    /\ \E j \in ScanCalls(2) : calls[2][j].BaseRev = <<"E">>

====
